---- MODULE Spec2Model ----
(***************************************************************************)
(* Model of src/minimalist_agent.py: the orchestrator                      *)
(* process_input_with_orchestrator, its two local tool functions and the   *)
(* two calls it makes to the generative model (the "gateway").             *)
(*                                                                         *)
(* The generative model is an external collaborator: what it returns is a  *)
(* nondeterministic choice over a bounded set of responses, or a raised    *)
(* exception.  A process calls the orchestrator up to MaxRuns times, the   *)
(* way the driver at the bottom of the file calls it once per input.       *)
(***************************************************************************)
EXTENDS Integers, Sequences, FiniteSets

\* ---------------------------------------------------------------- bounds
MaxRuns == 4

MaxBullets == 8

\* ------------------------------------------------------- program constants
\* "You must categorize a maximum of 3 tasks as 'high' priority per session"
HighPriorityLimit == 3

\* "Summary bullet points must not exceed 5 items"
BulletLimit == 5

SYSTEM_INSTRUCTIONS == "MINIMALIST RULES"

RuleAcknowledgment == "Minimalist rules loaded. Awaiting input."

TaskCategorizerSchema == "TaskCategorizerSchema"

NoteSynthesizerSchema == "NoteSynthesizerSchema"

\* a function name the orchestrator has no tool for
UnknownSchema == "UnknownSchema"

\* Python's None, as a value of an Optional[str] field
None == "<None>"

\* ------------------------------------------------------ gateway responses
Priorities == {"high", "medium", "low"}

\* context_tag values the gateway may return: one tag, or two tags
ContextTagValues == {<<"#Work">>, <<"#Work", "#Personal">>}

\* due_date values: None, or a date text
DueDateValues == {None, "2024-07-15"}

\* raw field mappings of a TaskCategorizerSchema call; context_tag may be absent
TaskArgs ==
    {[priority |-> p, context_tag |-> c, due_date |-> d] :
        p \in Priorities, c \in ContextTagValues, d \in DueDateValues}
        \cup {[priority |-> p, due_date |-> d] : p \in Priorities, d \in DueDateValues}

\* the bullet list <<1, ..., n>>: distinct items, so that order is observable
Bullets(n) == [i \in 1..n |-> i]

BulletLengths == {0, BulletLimit, BulletLimit + 1, MaxBullets}

\* embedded_task values: None, the empty string, a task text
EmbeddedTaskValues == {None, "", "Follow up on Q3 budget cuts"}

\* conceptual_tags values: one tag, or four tags
ConceptualTagValues ==
    {<<"RAG Systems">>, <<"RAG Systems", "Future of Work", "Budget", "Marketing">>}

\* raw field mappings of a NoteSynthesizerSchema call; embedded_task may be absent
NoteArgs ==
    {[summary_bullets |-> Bullets(n), conceptual_tags |-> t, embedded_task |-> e] :
        n \in BulletLengths, t \in ConceptualTagValues, e \in EmbeddedTaskValues}
        \cup {[summary_bullets |-> Bullets(n), conceptual_tags |-> t] :
                n \in BulletLengths, t \in ConceptualTagValues}

FunctionCalls ==
    {[name |-> TaskCategorizerSchema, args |-> a] : a \in TaskArgs}
        \cup {[name |-> NoteSynthesizerSchema, args |-> a] : a \in NoteArgs}
        \cup {[name |-> UnknownSchema, args |-> [priority |-> "high"]]}

\* a further function call in the same response
ExtraCall == [name |-> TaskCategorizerSchema,
              args |-> [priority |-> "high", context_tag |-> <<"#Work">>,
                        due_date |-> None]]

\* what chat.send_message / model.generate_content may return
Responses ==
    {[function_calls |-> <<>>, text |-> t] : t \in {"", "plain text"}}
        \cup {[function_calls |-> <<c>>, text |-> ""] : c \in FunctionCalls}
        \cup {[function_calls |-> <<c, ExtraCall>>, text |-> ""] : c \in FunctionCalls}

\* a local name that is not bound (yet)
Unbound == [function_calls |-> <<>>, text |-> "<unbound>"]

RawInputs == {"Need to review the Q3 report by Friday.", "Meeting summary from yesterday"}

\* ------------------------------------------------------------------ state
VARIABLES
    pc,                 \* position of the process in process_input_with_orchestrator
    runs,               \* number of calls of process_input_with_orchestrator so far
    raw_input,          \* the argument of the current call
    final_results,      \* the list the current call accumulates and returns
    response,           \* the local `response` (primary call)
    a2a_response,       \* the local `a2a_response` (hand-off call)
    gateway_calls,      \* the requests the current call has sent to the model
    highPriorityCount   \* history: entries recorded as a high Task by this process

vars == <<pc, runs, raw_input, final_results, response, a2a_response,
          gateway_calls, highPriorityCount>>

\* --------------------------------------------------------- tool functions
\* categorize_task that rewrites a high priority
categorize_task_downgrade(kwargs) ==
    [tool_used |-> "TaskCategorizer",
     task_output |-> IF "priority" \in DOMAIN kwargs /\ kwargs.priority = "high"
                     THEN [kwargs EXCEPT !.priority = "medium"]
                     ELSE kwargs]

categorize_task(kwargs) ==
    [tool_used |-> "TaskCategorizer", task_output |-> kwargs]

synthesize_note(kwargs) ==
    [tool_used |-> "NoteSynthesizer", note_output |-> kwargs]

TOOL_NAMES == {TaskCategorizerSchema, NoteSynthesizerSchema}

\* TOOL_FUNCTIONS[tool_name](**tool_args)
TOOL_FUNCTIONS(tool_name, tool_args) ==
    IF tool_name = TaskCategorizerSchema
    THEN categorize_task(tool_args)
    ELSE synthesize_note(tool_args)

\* Python truth value of an Optional[str]
Truthy(v) == v # None /\ v # ""

\* `while response.function_calls:`
HasFunctionCalls(r) == r.function_calls # <<>>

\* `function_call = response.function_calls[0]`
FirstCall_last(r) == r.function_calls[Len(r.function_calls)]

FirstCall(r) == r.function_calls[1]

\* `dict(function_call.args)`: a new mapping with the same keys and values
dict(mapping) == [k \in DOMAIN mapping |-> mapping[k]]

\* `if tool_name in TOOL_FUNCTIONS:`
ToolKnown(tool_name) == tool_name \in TOOL_NAMES

\* the else branch of the tool lookup: print, nothing appended
UnknownTool_record(results) ==
    Append(results, [tool_used |-> "Unknown"])

UnknownTool(results) == results

\* where the `break` of the else branch leads: out of the loop, to the return
AfterUnknownTool_noBreak == "InLoop"

AfterUnknownTool == "Done"

\* `a2a_result = categorize_task(**a2a_args)`
A2AResult_dispatch(a2a_call) == TOOL_FUNCTIONS(a2a_call.name, a2a_call.args)

A2AResult(a2a_call) == categorize_task(dict(a2a_call.args))

\* list.append
ListAppend_front(list, x) == <<x>> \o list

ListAppend(list, x) == Append(list, x)

\* the condition of the hand-off, evaluated once 'embedded_task' is known to be a key
ShouldHandOff_anyNote(tool_name, tool_result) ==
    tool_name = NoteSynthesizerSchema

ShouldHandOff_wrongName(tool_name, tool_result) ==
    tool_name = TaskCategorizerSchema /\ Truthy(tool_result.note_output.embedded_task)

ShouldHandOff(tool_name, tool_result) ==
    tool_name = NoteSynthesizerSchema /\ Truthy(tool_result.note_output.embedded_task)

\* the except clauses: print, then fall through to `return final_results`
HandleException_record(results) ==
    Append(results, [tool_used |-> "Error"])

HandleException_reset(results) == <<>>

HandleException(results) == results

\* the preamble of the chat the primary call is sent in
ChatHistory ==
    <<[role |-> "user", text |-> SYSTEM_INSTRUCTIONS],
      [role |-> "model", text |-> RuleAcknowledgment]>>

\* a2a_prompt
A2APrompt(embedded_task) ==
    <<"Process this embedded task using the TaskCategorizer: ", embedded_task,
      ". Remember the minimalist rules.">>

\* chat.send_message(raw_input, config=config)
PrimaryRequest(input) ==
    [api |-> "chat.send_message", prompt |-> <<input>>,
     tools |-> {TaskCategorizerSchema, NoteSynthesizerSchema},
     history |-> ChatHistory]

\* model.generate_content(a2a_prompt, config=a2a_config)
HandoffRequest_bothTools(embedded_task) ==
    [api |-> "model.generate_content", prompt |-> A2APrompt(embedded_task),
     tools |-> {TaskCategorizerSchema, NoteSynthesizerSchema},
     history |-> <<>>]

HandoffRequest(embedded_task) ==
    [api |-> "model.generate_content", prompt |-> A2APrompt(embedded_task),
     tools |-> {TaskCategorizerSchema},
     history |-> <<>>]

\* 1 if the entry is a Task entry holding priority high
IsHighTask(entry) ==
    /\ entry.tool_used = "TaskCategorizer"
    /\ "priority" \in DOMAIN entry.task_output
    /\ entry.task_output.priority = "high"

HighIncrement(entry) == IF IsHighTask(entry) THEN 1 ELSE 0

\* ---------------------------------------------------------------- actions
Init ==
    /\ pc = "Idle"
    /\ runs = 0
    /\ raw_input = ""
    /\ final_results = <<>>
    /\ response = Unbound
    /\ a2a_response = Unbound
    /\ gateway_calls = <<>>
    /\ highPriorityCount = 0

\* a call of process_input_with_orchestrator, up to the primary send_message
StartRun ==
    /\ pc \in {"Idle", "Done"}
    /\ runs < MaxRuns
    /\ \E input \in RawInputs :
        /\ raw_input' = input
        /\ gateway_calls' = <<PrimaryRequest(input)>>
    /\ runs' = runs + 1
    /\ final_results' = <<>>
    /\ response' = Unbound
    /\ a2a_response' = Unbound
    /\ pc' = "AwaitingPrimaryExtraction"
    /\ UNCHANGED highPriorityCount

\* chat.send_message raises
PrimaryRaises ==
    /\ pc = "AwaitingPrimaryExtraction"
    /\ final_results' = HandleException(final_results)
    /\ pc' = "Done"
    /\ UNCHANGED <<runs, raw_input, response, a2a_response, gateway_calls,
                   highPriorityCount>>

\* the response has no function call: the loop is not entered
PrimaryNoToolCall ==
    /\ pc = "AwaitingPrimaryExtraction"
    /\ \E r \in Responses :
        /\ ~HasFunctionCalls(r)
        /\ response' = r
    /\ pc' = "Done"
    /\ UNCHANGED <<runs, raw_input, final_results, a2a_response, gateway_calls,
                   highPriorityCount>>

\* the first function call names no tool of TOOL_FUNCTIONS
PrimaryUnknownTool ==
    /\ pc = "AwaitingPrimaryExtraction"
    /\ \E r \in Responses :
        /\ HasFunctionCalls(r)
        /\ ~ToolKnown(FirstCall(r).name)
        /\ response' = r
    /\ final_results' = UnknownTool(final_results)
    /\ pc' = AfterUnknownTool
    /\ UNCHANGED <<runs, raw_input, a2a_response, gateway_calls, highPriorityCount>>

\* the first function call is a TaskCategorizerSchema call
PrimaryTask ==
    /\ pc = "AwaitingPrimaryExtraction"
    /\ \E r \in Responses :
        /\ HasFunctionCalls(r)
        /\ ToolKnown(FirstCall(r).name)
        /\ FirstCall(r).name = TaskCategorizerSchema
        /\ response' = r
        /\ LET tool_name == FirstCall(r).name
               tool_result == TOOL_FUNCTIONS(tool_name, dict(FirstCall(r).args))
           IN /\ final_results' = ListAppend(final_results, tool_result)
              /\ highPriorityCount' = highPriorityCount + HighIncrement(tool_result)
    /\ pc' = "Done"
    /\ UNCHANGED <<runs, raw_input, a2a_response, gateway_calls>>

\* a NoteSynthesizerSchema call without the key 'embedded_task': the lookup
\* raises KeyError after the append, and the except clause catches it
PrimaryNoteKeyError ==
    /\ pc = "AwaitingPrimaryExtraction"
    /\ \E r \in Responses :
        /\ HasFunctionCalls(r)
        /\ ToolKnown(FirstCall(r).name)
        /\ FirstCall(r).name = NoteSynthesizerSchema
        /\ "embedded_task" \notin DOMAIN FirstCall(r).args
        /\ response' = r
        /\ LET tool_name == FirstCall(r).name
               tool_result == TOOL_FUNCTIONS(tool_name, dict(FirstCall(r).args))
           IN final_results' = HandleException(ListAppend(final_results, tool_result))
    /\ pc' = "Done"
    /\ UNCHANGED <<runs, raw_input, a2a_response, gateway_calls, highPriorityCount>>

\* a NoteSynthesizerSchema call whose embedded_task is falsy: no hand-off
PrimaryNoteNoHandoff ==
    /\ pc = "AwaitingPrimaryExtraction"
    /\ \E r \in Responses :
        /\ HasFunctionCalls(r)
        /\ ToolKnown(FirstCall(r).name)
        /\ FirstCall(r).name = NoteSynthesizerSchema
        /\ "embedded_task" \in DOMAIN FirstCall(r).args
        /\ response' = r
        /\ LET tool_name == FirstCall(r).name
               tool_result == TOOL_FUNCTIONS(tool_name, dict(FirstCall(r).args))
           IN /\ ~ShouldHandOff(tool_name, tool_result)
              /\ final_results' = ListAppend(final_results, tool_result)
    /\ pc' = "Done"
    /\ UNCHANGED <<runs, raw_input, a2a_response, gateway_calls, highPriorityCount>>

\* a NoteSynthesizerSchema call whose embedded_task is truthy: the entry is
\* appended and the hand-off request is sent
PrimaryNoteHandoff ==
    /\ pc = "AwaitingPrimaryExtraction"
    /\ \E r \in Responses :
        /\ HasFunctionCalls(r)
        /\ ToolKnown(FirstCall(r).name)
        /\ FirstCall(r).name = NoteSynthesizerSchema
        /\ "embedded_task" \in DOMAIN FirstCall(r).args
        /\ response' = r
        /\ LET tool_name == FirstCall(r).name
               tool_result == TOOL_FUNCTIONS(tool_name, dict(FirstCall(r).args))
           IN /\ ShouldHandOff(tool_name, tool_result)
              /\ final_results' = ListAppend(final_results, tool_result)
              /\ gateway_calls' = Append(gateway_calls,
                        HandoffRequest(tool_result.note_output.embedded_task))
    /\ pc' = "AwaitingHandoffExtraction"
    /\ UNCHANGED <<runs, raw_input, a2a_response, highPriorityCount>>

\* model.generate_content raises
HandoffRaises ==
    /\ pc = "AwaitingHandoffExtraction"
    /\ final_results' = HandleException(final_results)
    /\ pc' = "Done"
    /\ UNCHANGED <<runs, raw_input, response, a2a_response, gateway_calls,
                   highPriorityCount>>

\* the hand-off response has no function call
HandoffNoToolCall ==
    /\ pc = "AwaitingHandoffExtraction"
    /\ \E r \in Responses :
        /\ ~HasFunctionCalls(r)
        /\ a2a_response' = r
    /\ pc' = "Done"
    /\ UNCHANGED <<runs, raw_input, final_results, response, gateway_calls,
                   highPriorityCount>>

\* the hand-off response has a function call: its first call, whatever its
\* name, is passed to categorize_task and the result appended
HandoffToolCall ==
    /\ pc = "AwaitingHandoffExtraction"
    /\ \E r \in Responses :
        /\ HasFunctionCalls(r)
        /\ a2a_response' = r
        /\ LET a2a_result == A2AResult(FirstCall(r))
           IN /\ final_results' = ListAppend(final_results, a2a_result)
              /\ highPriorityCount' = highPriorityCount + HighIncrement(a2a_result)
    /\ pc' = "Done"
    /\ UNCHANGED <<runs, raw_input, response, gateway_calls>>

Next ==
    \/ StartRun
    \/ PrimaryRaises
    \/ PrimaryNoToolCall
    \/ PrimaryUnknownTool
    \/ PrimaryTask
    \/ PrimaryNoteKeyError
    \/ PrimaryNoteNoHandoff
    \/ PrimaryNoteHandoff
    \/ HandoffRaises
    \/ HandoffNoToolCall
    \/ HandoffToolCall

Spec == Init /\ [][Next]_vars

\* the steps of a call that is under way: the pending gateway call returns or
\* raises, and the code runs on to its next gateway call or to its return
RunStep ==
    \/ PrimaryRaises
    \/ PrimaryNoToolCall
    \/ PrimaryUnknownTool
    \/ PrimaryTask
    \/ PrimaryNoteKeyError
    \/ PrimaryNoteNoHandoff
    \/ PrimaryNoteHandoff
    \/ HandoffRaises
    \/ HandoffNoToolCall
    \/ HandoffToolCall

\* a call that was started keeps running: every gateway call it blocks on
\* comes back with a response or an exception
FairSpec == Spec /\ WF_vars(RunStep)

\* ------------------------------------------------- derived state predicates
\* the function call the orchestrator processes: response.function_calls[0]
PrimaryCall == response.function_calls[1]

A2ACall == a2a_response.function_calls[1]

PrimaryIsTask ==
    HasFunctionCalls(response) /\ PrimaryCall.name = TaskCategorizerSchema

PrimaryIsNote ==
    HasFunctionCalls(response) /\ PrimaryCall.name = NoteSynthesizerSchema

\* the primary record is a Note whose embeddedTask is present and not null
PrimaryNoteHasEmbeddedTask ==
    /\ PrimaryIsNote
    /\ "embedded_task" \in DOMAIN PrimaryCall.args
    /\ PrimaryCall.args.embedded_task # None

\* a second gateway call was made in the current run
HandoffAttempted ==
    \E i \in DOMAIN gateway_calls : gateway_calls[i].api = "model.generate_content"

\* high Task entries recorded by the current run
HighInRun ==
    Cardinality({i \in DOMAIN final_results : IsHighTask(final_results[i])})

\* the session's count when the current run started
SessionCountAtRunStart == highPriorityCount - HighInRun

\* ------------------------------------------------------------------ claims

\* C1: highPriorityCount never exceeds 3, and a high-priority Task candidate
\* arriving after three Tasks were finalized as high is recorded as medium.
C1_HighPriorityBudget ==
    /\ highPriorityCount <= HighPriorityLimit
    /\ (pc = "Done" /\ SessionCountAtRunStart >= HighPriorityLimit /\ PrimaryIsTask
            /\ "priority" \in DOMAIN PrimaryCall.args
            /\ PrimaryCall.args.priority = "high")
        => (Len(final_results) = 1 /\ final_results[1].task_output.priority = "medium")

\* C2: a hand-off gateway call is made only if the primary record is a Note
\* whose embeddedTask is non-null; after a Task, or a Note with null or absent
\* embeddedTask, the run is Done with the primary call as its only call.
C2_HandoffOnlyFromNoteWithTask ==
    /\ (HandoffAttempted \/ pc = "AwaitingHandoffExtraction")
        => (/\ PrimaryNoteHasEmbeddedTask
            /\ final_results # <<>>
            /\ final_results[1] = synthesize_note(PrimaryCall.args))
    /\ (pc = "Done" /\ HasFunctionCalls(response) /\ ~PrimaryNoteHasEmbeddedTask)
        => Len(gateway_calls) = 1

C2_Witness ==
    /\ pc = "Done"
    /\ HandoffAttempted
    /\ PrimaryNoteHasEmbeddedTask
    /\ final_results[1].tool_used = "NoteSynthesizer"

\* C3 as stated: whenever the primary record is a Note whose embeddedTask is
\* non-null (the empty string included), the hand-off gateway call for that
\* embedded task is made before Done.
C3_HandoffForEveryNonNull ==
    (pc = "Done" /\ PrimaryNoteHasEmbeddedTask)
        => \E i \in DOMAIN gateway_calls :
              gateway_calls[i] = HandoffRequest(PrimaryCall.args.embedded_task)

\* C3 amended: whenever the primary record is a Note whose embeddedTask is a
\* non-null, non-empty string, the hand-off gateway call for that embedded
\* task is made before Done.
C3_HandoffForEveryNonEmpty ==
    (pc = "Done" /\ PrimaryNoteHasEmbeddedTask /\ PrimaryCall.args.embedded_task # "")
        => \E i \in DOMAIN gateway_calls :
              gateway_calls[i] = HandoffRequest(PrimaryCall.args.embedded_task)

C3_Witness ==
    /\ pc = "Done"
    /\ PrimaryNoteHasEmbeddedTask
    /\ PrimaryCall.args.embedded_task # ""
    /\ Len(gateway_calls) = 2
    /\ gateway_calls[2] = HandoffRequest(PrimaryCall.args.embedded_task)

\* C4: if the primary gateway call raises or returns no function call, the run
\* is Done with an empty result sequence and no hand-off gateway call.
C4_PrimaryFailureEndsRun ==
    (pc = "Done" /\ ~HasFunctionCalls(response))
        => (final_results = <<>> /\ ~HandoffAttempted /\ Len(gateway_calls) = 1)

\* the primary call raised: `response` was never bound
C4_Witness ==
    /\ pc = "Done"
    /\ response = Unbound
    /\ final_results = <<>>
    /\ Len(gateway_calls) = 1

\* C5: once the primary Note entry is recorded, no outcome of the hand-off step
\* removes or changes it: the result sequence still starts with that entry.
C5_PrimaryEntryKept ==
    [][pc = "AwaitingHandoffExtraction"
        => (/\ final_results' # <<>>
            /\ final_results'[1] = final_results[1]
            /\ final_results'[1] = synthesize_note(PrimaryCall.args))]_vars

\* the hand-off call raised, and the Note entry is what the run returns
C5_Witness ==
    /\ pc = "Done"
    /\ HandoffAttempted
    /\ a2a_response = Unbound
    /\ final_results = <<synthesize_note(PrimaryCall.args)>>

\* C6: a hand-off entry is appended only when the hand-off response selects the
\* Task schema; with any other schema selected nothing is appended.
C6_HandoffEntryOnlyForTask ==
    (HandoffAttempted /\ Len(final_results) = 2)
        => A2ACall.name = TaskCategorizerSchema

\* C7: the result sequence is in invocation order (primary entry first, the
\* hand-off entry after it), has at most two entries, and a run makes at most
\* one hand-off call.
C7_OrderAndDepth ==
    /\ Len(final_results) <= 2
    /\ Len(gateway_calls) <= 2
    /\ Cardinality({i \in DOMAIN gateway_calls :
                        gateway_calls[i].api = "model.generate_content"}) <= 1
    /\ final_results # <<>>
        => (/\ HasFunctionCalls(response)
            /\ PrimaryCall.name \in TOOL_NAMES
            /\ final_results[1] = TOOL_FUNCTIONS(PrimaryCall.name, PrimaryCall.args))
    /\ Len(final_results) = 2
        => (/\ PrimaryIsNote
            /\ HasFunctionCalls(a2a_response)
            /\ final_results[2] = categorize_task(A2ACall.args)
            /\ gateway_calls[1].api = "chat.send_message"
            /\ gateway_calls[2].api = "model.generate_content")

C7_Witness ==
    /\ pc = "Done"
    /\ Len(final_results) = 2
    /\ final_results[1].tool_used = "NoteSynthesizer"
    /\ final_results[2].tool_used = "TaskCategorizer"
    /\ A2ACall.name = TaskCategorizerSchema

\* C8: every gateway call of a run carries the Minimalist Rules instruction
\* text as its preamble turn pair.
C8_EveryCallCarriesRules ==
    \A i \in DOMAIN gateway_calls :
        /\ Len(gateway_calls[i].history) = 2
        /\ gateway_calls[i].history[1].text = SYSTEM_INSTRUCTIONS
        /\ gateway_calls[i].history[2].text = RuleAcknowledgment

\* C9: with the session at highPriorityCount = 3, a run whose primary record
\* is a Note with non-null embeddedTask and whose hand-off response proposes a
\* Task of priority high returns two entries (Note, then Task) and the Task's
\* priority is medium or low.
C9_HandoffSharesBudget ==
    (/\ pc = "Done"
     /\ SessionCountAtRunStart = HighPriorityLimit
     /\ PrimaryNoteHasEmbeddedTask
     /\ HandoffAttempted
     /\ HasFunctionCalls(a2a_response)
     /\ A2ACall.name = TaskCategorizerSchema
     /\ A2ACall.args.priority = "high")
        => (/\ Len(final_results) = 2
            /\ final_results[1].tool_used = "NoteSynthesizer"
            /\ final_results[2].tool_used = "TaskCategorizer"
            /\ final_results[2].task_output.priority \in {"medium", "low"})

\* C10: every recorded Note has at most 5 summaryBullets, the first 5 of the
\* bullets the gateway returned, in their order.
C10_BulletCap ==
    \A i \in DOMAIN final_results :
        final_results[i].tool_used = "NoteSynthesizer"
            => LET recorded == final_results[i].note_output.summary_bullets
                   returned == PrimaryCall.args.summary_bullets
               IN /\ Len(recorded) <= BulletLimit
                  /\ recorded = SubSeq(returned, 1,
                        IF Len(returned) < BulletLimit THEN Len(returned) ELSE BulletLimit)

\* the four tags of rule 2
AllowedContextTags == {"#Work", "#Personal", "#Learning", "#Finance"}

\* C11: every recorded Task has exactly one contextTag out of the four allowed
\* tags; a candidate without contextTag, or with two tags, is never recorded
\* as a Task entry.
C11_SingleContextTag ==
    \A i \in DOMAIN final_results :
        final_results[i].tool_used = "TaskCategorizer"
            => (/\ "context_tag" \in DOMAIN final_results[i].task_output
                /\ Len(final_results[i].task_output.context_tag) = 1
                /\ final_results[i].task_output.context_tag[1] \in AllowedContextTags)

\* C12: if the primary response selects a schema that is neither Task nor
\* Note, the run ends at that step: nothing is appended, no hand-off call is
\* made, and the empty result sequence is returned.
C12_UnknownToolEndsRun ==
    (HasFunctionCalls(response)
        /\ PrimaryCall.name \notin {TaskCategorizerSchema, NoteSynthesizerSchema})
        => (/\ pc = "Done"
            /\ final_results = <<>>
            /\ Len(gateway_calls) = 1
            /\ a2a_response = Unbound)

C12_Witness ==
    /\ pc = "Done"
    /\ HasFunctionCalls(response)
    /\ PrimaryCall.name = UnknownSchema
    /\ final_results = <<>>

\* C13: the primary gateway call offers both schemas (Task and Note), the
\* hand-off gateway call offers the Task schema only.
C13_AllowedSchemas ==
    \A i \in DOMAIN gateway_calls :
        /\ i = 1 => (/\ gateway_calls[i].api = "chat.send_message"
                     /\ gateway_calls[i].tools
                            = {TaskCategorizerSchema, NoteSynthesizerSchema})
        /\ i > 1 => (/\ gateway_calls[i].api = "model.generate_content"
                     /\ gateway_calls[i].tools = {TaskCategorizerSchema})

C13_Witness ==
    /\ Len(gateway_calls) = 2
    /\ gateway_calls[1].tools = {TaskCategorizerSchema, NoteSynthesizerSchema}
    /\ gateway_calls[2].tools = {TaskCategorizerSchema}
    /\ pc = "AwaitingHandoffExtraction"

\* C14: every run terminates: whatever the primary and hand-off gateway calls
\* come back with, the call reaches Done, where it returns its result
\* sequence, after at most two gateway calls.
C14_EveryRunTerminates ==
    /\ (pc \in {"AwaitingPrimaryExtraction", "AwaitingHandoffExtraction"})
            ~> (pc = "Done")
    /\ [](/\ pc \in {"Idle", "AwaitingPrimaryExtraction",
                     "AwaitingHandoffExtraction", "Done"}
          /\ Len(gateway_calls) <= 2)

\* a run that ended after two gateway calls, the second selecting no known tool
C14_Witness ==
    /\ pc = "Done"
    /\ Len(gateway_calls) = 2
    /\ HasFunctionCalls(a2a_response)
    /\ A2ACall.name = UnknownSchema

C16_MissingEmbeddedTaskKey ==
    (PrimaryIsNote /\ "embedded_task" \notin DOMAIN PrimaryCall.args)
        => (/\ pc = "Done"
            /\ Len(final_results) = 1
            /\ final_results[1].tool_used = "NoteSynthesizer"
            /\ final_results[1].note_output = PrimaryCall.args
            /\ Len(gateway_calls) = 1
            /\ a2a_response = Unbound)

C16_Witness ==
    /\ pc = "Done"
    /\ PrimaryIsNote
    /\ "embedded_task" \notin DOMAIN PrimaryCall.args
    /\ Len(final_results) = 1

\* entries a finished run holds for its primary response and its hand-off response
PrimaryEntries ==
    IF HasFunctionCalls(response) /\ PrimaryCall.name \in TOOL_NAMES THEN 1 ELSE 0

HandoffEntries ==
    IF HasFunctionCalls(a2a_response) THEN 1 ELSE 0

\* C17: only the first function call of a response is processed: a primary
\* response with several calls yields exactly one primary entry, for its first
\* call; a hand-off response with several calls yields one entry, for its first
\* call; and no further message is sent in the chat after the primary one.
C17_OnlyFirstCall ==
    /\ Cardinality({i \in DOMAIN gateway_calls :
                        gateway_calls[i].api = "chat.send_message"}) <= 1
    /\ (pc = "Done" /\ Len(response.function_calls) > 1)
        => (/\ Len(final_results) = PrimaryEntries + HandoffEntries
            /\ PrimaryEntries = 1
                => (/\ final_results[1].tool_used =
                            (IF PrimaryCall.name = TaskCategorizerSchema
                             THEN "TaskCategorizer" ELSE "NoteSynthesizer")
                    /\ final_results[1] =
                            TOOL_FUNCTIONS(PrimaryCall.name, PrimaryCall.args)))
    /\ (pc = "Done" /\ Len(a2a_response.function_calls) > 1)
        => (/\ Len(final_results) = 2
            /\ final_results[2] = categorize_task(A2ACall.args))

\* both responses carried two function calls
C17_Witness ==
    /\ pc = "Done"
    /\ Len(response.function_calls) = 2
    /\ Len(a2a_response.function_calls) = 2
    /\ PrimaryCall # response.function_calls[2]
    /\ A2ACall # a2a_response.function_calls[2]
    /\ Len(final_results) = 2

\* the payload of an entry
Payload(entry) ==
    IF entry.tool_used = "TaskCategorizer" THEN entry.task_output ELSE entry.note_output

====
